---- MODULE Spec2Model ----
(***************************************************************************)
(* The RVM status registry: one table of RVM rows (status/models.py), a    *)
(* ModelSerializer over it (status/serializers.py) and a ModelViewSet with *)
(* a django-filter FilterSet (status/views.py), routed as list / retrieve  *)
(* / create / update / partial_update / destroy (status/urls.py).          *)
(*                                                                         *)
(* Text values (locations, query needles) are sequences of one-character   *)
(* strings so that case folding and substring search are computed.         *)
(* Timestamps are whole hours; Null stands for SQL NULL / Python None.     *)
(***************************************************************************)
EXTENDS Integers, Sequences, FiniteSets, TLC

VARIABLES store, nextId, req, resp

vars == <<store, nextId, req, resp>>

(* ------------------------------ bounds --------------------------------- *)

\* rows already in the table when the service starts
MaxSeed == 2
\* largest identifier the table's auto-increment key hands out
MaxId == 3

(* ------------------------------ schema --------------------------------- *)

Null == 0 - 1

Cairo == <<"C", "a", "i", "r", "o">>

EmptyName == ""

Hours24 == 24

Fields == {"id", "name", "location", "is_active", "last_usage"}

ReadOnlyFieldsExceptId == Fields \ {"id"}

ReadOnlyFields == Fields

WritableFields == Fields \ ReadOnlyFields

\* model fields without a default and without blank=True
ModelRequiredFields == {"name"}

RequiredFields == ModelRequiredFields \cap WritableFields

(* --------------------------- value universes --------------------------- *)

Alex == <<"A", "l", "e", "x">>

NewAlex == <<"N", "a", "L", "E", "X">>

SeedNames == {"rvm-a"}

SeedLocations == {NewAlex}

SeedUsages == {Null, 6, 30}

SeedRows ==
  [name : SeedNames, location : SeedLocations, is_active : BOOLEAN,
   last_usage : SeedUsages]

Nows == {30, 54}

Needles == {<<"a", "l", "e", "x">>, <<"A", "I">>}

ExactLocations == {Cairo}

\* the values a request body carries for the fields it supplies
NoBody ==
  [supplied |-> {}, id |-> 2, name |-> "rvm-b", location |-> Alex,
   is_active |-> FALSE, last_usage |-> 30]

\* the field sets request bodies supply
BodyFieldSets ==
  { {}, {"name"}, {"is_active"}, {"id", "name"},
    {"name", "location", "is_active", "last_usage"} }

Bodies == { [NoBody EXCEPT !.supplied = D] : D \in BodyFieldSets }

ParamNames == {"location", "loc", "recent"}

NoParams ==
  [supplied |-> {}, location |-> Cairo, loc |-> <<"A", "I">>, recent |-> FALSE]

Params ==
  { p \in [supplied : SUBSET ParamNames, location : ExactLocations,
           loc : Needles, recent : BOOLEAN] :
      /\ "location" \notin p.supplied => p.location = NoParams.location
      /\ "loc" \notin p.supplied => p.loc = NoParams.loc
      /\ "recent" \notin p.supplied => p.recent = NoParams.recent }

NoReq == [op |-> "none", id |-> 0, body |-> NoBody, params |-> NoParams, now |-> 0]

NoResp == [status |-> 0, body |-> <<>>, errors |-> {}]

(* ------------------------------ helpers -------------------------------- *)

Range(s) == { s[i] : i \in 1..Len(s) }

Ids(s) == { s[i].id : i \in 1..Len(s) }

\* the rows of table s whose key is id, in table order
RowsWithId(s, id) == SelectSeq(s, LAMBDA r : r.id = id)

LowerChar(c) ==
  CASE c = "A" -> "a"
    [] c = "C" -> "c"
    [] c = "E" -> "e"
    [] c = "I" -> "i"
    [] c = "L" -> "l"
    [] c = "N" -> "n"
    [] c = "X" -> "x"
    [] OTHER -> c

Lower(t) == [i \in 1..Len(t) |-> LowerChar(t[i])]

Contains(t, n) ==
  \E k \in 0..(Len(t) - Len(n)) : \A i \in 1..Len(n) : t[k + i] = n[i]

IContains(t, n) == Contains(Lower(t), Lower(n))

(* ----------------------------- querysets ------------------------------- *)

AllRows(s) == s

\* RVMViewSet.queryset: RVM.objects.filter(is_active=True)
ActiveQueryset(s) == SelectSeq(s, LAMBDA r : r.is_active)

filter_recent_strict(qs, value, now) ==
  IF value
    THEN SelectSeq(qs, LAMBDA r :
           r.last_usage # Null /\ r.last_usage > now - Hours24)
    ELSE qs

\* RVMFilter.filter_recent, with timezone.now() read once as now
filter_recent(qs, value, now) ==
  IF value
    THEN SelectSeq(qs, LAMBDA r :
           r.last_usage # Null /\ r.last_usage >= now - Hours24)
    ELSE qs

\* the project settings install the django-filter backend for the viewset
FilterBackendEnabled == TRUE

\* RVMFilter applied to a queryset: every supplied parameter narrows it
FilterQueryset(qs, p, now) ==
  IF ~FilterBackendEnabled THEN qs
  ELSE
    LET q1 == IF "location" \in p.supplied
                THEN SelectSeq(qs, LAMBDA r : r.location = p.location)
                ELSE qs
        q2 == IF "loc" \in p.supplied
                THEN SelectSeq(q1, LAMBDA r : IContains(r.location, p.loc))
                ELSE q1
        q3 == IF "recent" \in p.supplied
                THEN filter_recent(q2, p.recent, now)
                ELSE q2
    IN q3

\* the database sorts NULL below every timestamp, so DESC puts NULL last
NullsSortLast == TRUE

MayPrecedeAscending(a, b) ==
  IF a.last_usage = Null /\ b.last_usage = Null THEN TRUE
  ELSE IF a.last_usage = Null THEN ~NullsSortLast
  ELSE IF b.last_usage = Null THEN NullsSortLast
  ELSE a.last_usage <= b.last_usage

\* Meta.ordering = ("-last_usage",): may row a come before row b
MayPrecede(a, b) ==
  IF a.last_usage = Null /\ b.last_usage = Null THEN TRUE
  ELSE IF a.last_usage = Null THEN ~NullsSortLast
  ELSE IF b.last_usage = Null THEN NullsSortLast
  ELSE a.last_usage >= b.last_usage

\* every order ORDER BY last_usage DESC may return the rows of qs in:
\* rows with equal keys come in an order the database chooses
OrderedQuerysets(qs) ==
  { q \in [1..Len(qs) -> Range(qs)] :
      /\ \A i, j \in 1..Len(qs) : i # j => q[i] # q[j]
      /\ \A i, j \in 1..Len(qs) : i < j => MayPrecede(q[i], q[j]) }

GetObjectUnfiltered(s, id) == RowsWithId(AllRows(s), id)

\* get_object(): lookup by pk inside the viewset's queryset
GetObject(s, id) == RowsWithId(ActiveQueryset(s), id)

(* ----------------------------- serializer ------------------------------ *)

\* the fields of a request body that reach validated_data
ValidatedData(body) == [body EXCEPT !.supplied = body.supplied \cap WritableFields]

\* required writable fields the body leaves out (none for a partial update)
MissingFields(body, partial) ==
  IF partial THEN {} ELSE RequiredFields \ body.supplied

Pick(vd, f, default) == IF f \in vd.supplied THEN vd[f] ELSE default

\* the key the table assigns to a row inserted without one
NextAutoId(s, n) == n

\* RVM(**validated_data) with the model's field defaults
NewRow(vd, s, n) ==
  [id |-> Pick(vd, "id", NextAutoId(s, n)),
   name |-> Pick(vd, "name", EmptyName),
   location |-> Pick(vd, "location", Cairo),
   is_active |-> Pick(vd, "is_active", TRUE),
   last_usage |-> Pick(vd, "last_usage", Null)]

\* serializer.update(): setattr for every validated field, then save()
UpdatedRow(r, vd) ==
  [id |-> Pick(vd, "id", r.id),
   name |-> Pick(vd, "name", r.name),
   location |-> Pick(vd, "location", r.location),
   is_active |-> Pick(vd, "is_active", r.is_active),
   last_usage |-> Pick(vd, "last_usage", r.last_usage)]

\* UPDATE ... WHERE id = r.id
SaveRow(s, r, new) == [i \in 1..Len(s) |-> IF s[i].id = r.id THEN new ELSE s[i]]

SoftDeleteRow(s, r) ==
  [i \in 1..Len(s) |-> IF s[i].id = r.id THEN [s[i] EXCEPT !.is_active = FALSE]
                       ELSE s[i]]

\* instance.delete(): DELETE ... WHERE id = r.id
DeleteRow(s, r) == SelectSeq(s, LAMBDA x : x.id # r.id)

(* ------------------------------ requests ------------------------------- *)

TargetIds == 1..MaxId

\* the table as the service finds it: rows written by migrations, the admin
\* or the process that records usage, keyed 1..n by the auto-increment key
SeedStores ==
  UNION { { [i \in 1..n |-> [id |-> i, name |-> f[i].name,
                             location |-> f[i].location,
                             is_active |-> f[i].is_active,
                             last_usage |-> f[i].last_usage]] :
            f \in [1..n -> SeedRows] } : n \in 0..MaxSeed }

Init ==
  /\ store \in SeedStores
  /\ nextId = Len(store) + 1
  /\ req = NoReq
  /\ resp = NoResp

\* whether the request reads the clock: filter_recent calls timezone.now()
\* only for ?recent=true
ReadsClock(p) == "recent" \in p.supplied /\ p.recent

\* GET /rvms/?location=&loc=&recent=
List(p, now) ==
  /\ req' = [NoReq EXCEPT !.op = "list", !.params = p,
                          !.now = IF ReadsClock(p) THEN now ELSE NoReq.now]
  /\ \E q \in OrderedQuerysets(FilterQueryset(ActiveQueryset(store), p, now)) :
       resp' = [status |-> 200, body |-> q, errors |-> {}]
  /\ UNCHANGED <<store, nextId>>

\* GET /rvms/{id}/
Retrieve(id) ==
  /\ req' = [NoReq EXCEPT !.op = "retrieve", !.id = id]
  /\ LET found == GetObject(store, id) IN
       resp' = IF found = <<>>
                 THEN [status |-> 404, body |-> <<>>, errors |-> {}]
                 ELSE [status |-> 200, body |-> <<found[1]>>, errors |-> {}]
  /\ UNCHANGED <<store, nextId>>

\* POST /rvms/
Create(body) ==
  /\ nextId <= MaxId
  /\ req' = [NoReq EXCEPT !.op = "create", !.body = body]
  /\ LET missing == MissingFields(body, FALSE) IN
       IF missing # {}
         THEN /\ resp' = [status |-> 400, body |-> <<>>, errors |-> missing]
              /\ UNCHANGED <<store, nextId>>
         ELSE LET row == NewRow(ValidatedData(body), store, nextId) IN
              /\ store' = Append(store, row)
              /\ nextId' = IF row.id >= nextId THEN row.id + 1 ELSE nextId
              /\ resp' = [status |-> 201, body |-> <<row>>, errors |-> {}]

\* PUT /rvms/{id}/ (partial = FALSE) and PATCH /rvms/{id}/ (partial = TRUE)
Update(id, body, partial) ==
  /\ req' = [NoReq EXCEPT !.op = IF partial THEN "patch" ELSE "put",
                          !.id = id, !.body = body]
  /\ LET found == GetObject(store, id)
         missing == MissingFields(body, partial) IN
       IF found = <<>>
         THEN /\ resp' = [status |-> 404, body |-> <<>>, errors |-> {}]
              /\ UNCHANGED <<store, nextId>>
       ELSE IF missing # {}
         THEN /\ resp' = [status |-> 400, body |-> <<>>, errors |-> missing]
              /\ UNCHANGED <<store, nextId>>
       ELSE LET new == UpdatedRow(found[1], ValidatedData(body)) IN
              /\ store' = SaveRow(store, found[1], new)
              /\ resp' = [status |-> 200, body |-> <<new>>, errors |-> {}]
              /\ UNCHANGED nextId

\* DELETE /rvms/{id}/
Delete(id) ==
  /\ req' = [NoReq EXCEPT !.op = "delete", !.id = id]
  /\ LET found == GetObject(store, id) IN
       IF found = <<>>
         THEN /\ resp' = [status |-> 404, body |-> <<>>, errors |-> {}]
              /\ UNCHANGED <<store, nextId>>
         ELSE /\ store' = DeleteRow(store, found[1])
              /\ resp' = [status |-> 204, body |-> <<>>, errors |-> {}]
              /\ UNCHANGED nextId

Next ==
  \/ \E p \in Params, now \in Nows : List(p, now)
  \/ \E id \in TargetIds : Retrieve(id)
  \/ \E body \in Bodies : Create(body)
  \/ \E id \in TargetIds, body \in Bodies, partial \in BOOLEAN :
       Update(id, body, partial)
  \/ \E id \in TargetIds : Delete(id)

Spec == Init /\ [][Next]_vars

(* ------------------------- shared vocabulary --------------------------- *)

IsUpdate(r) == r.op \in {"put", "patch"}

ById(r) == r.op \in {"retrieve", "put", "patch", "delete"}

\* the request is addressed to a row that is in table s and active
TargetsActive(r, s) == \E i \in 1..Len(s) : s[i].id = r.id /\ s[i].is_active

\* the request is addressed to a row that is in table s and inactive
TargetsInactive(r, s) == \E i \in 1..Len(s) : s[i].id = r.id /\ ~s[i].is_active

\* an update body the field rules accept: PATCH, or PUT carrying name
WellFormedUpdate(r) ==
  IsUpdate(r) /\ (r.op = "patch" \/ "name" \in r.body.supplied)

RowOf(s, id) == s[CHOOSE i \in 1..Len(s) : s[i].id = id]

IdSeq(s) == [i \in 1..Len(s) |-> s[i].id]

UniqueIds(s) == \A i, j \in 1..Len(s) : i # j => s[i].id # s[j].id

(* -------------------------------- C1 ----------------------------------- *)

\* C1: a list response contains only rows of the table whose is_active is
\* true; a retrieve answers 200 with the row exactly when the addressed row is
\* in the table and active, and 404 when it is missing or inactive.
C1_VisibleOnlyActive ==
  /\ req.op = "list" =>
       \A i \in 1..Len(resp.body) :
         resp.body[i].is_active /\ resp.body[i] \in Range(store)
  /\ req.op = "retrieve" =>
       IF TargetsActive(req, store)
         THEN /\ resp.status = 200
              /\ resp.body = <<RowOf(store, req.id)>>
              /\ resp.body[1].is_active
         ELSE resp.status = 404 /\ resp.body = <<>>

C1_Witness ==
  /\ req.op = "list"
  /\ resp.body # <<>>
  /\ \E i \in 1..Len(store) : ~store[i].is_active
  /\ nextId > MaxSeed + 1

(* -------------------------------- C2 ----------------------------------- *)

\* C2 (as stated): after an accepted update of an active row whose body sets
\* is_active = false, the row is no longer among the rows the endpoint lists
\* or addresses.
C2_SoftDeleteByUpdate ==
  [][ ( /\ WellFormedUpdate(req')
        /\ TargetsActive(req', store)
        /\ "is_active" \in req'.body.supplied
        /\ ~req'.body.is_active )
      => req'.id \notin Ids(ActiveQueryset(store')) ]_vars

(* -------------------------------- C3 ----------------------------------- *)

\* C3 (as stated): an accepted update of an active row sets every supplied
\* field among name, location, is_active, last_usage to the supplied value,
\* keeps the id, keeps the unsupplied fields on PATCH, and leaves every other
\* row as it was.
C3_UpdateSetsSuppliedFields ==
  [][ ( WellFormedUpdate(req') /\ TargetsActive(req', store) )
      => /\ Len(store') = Len(store)
         /\ \A i \in 1..Len(store) :
              IF store[i].id # req'.id THEN store'[i] = store[i]
              ELSE LET b == req'.body
                       sup == b.supplied
                       old == store[i]
                       new == store'[i]
                   IN /\ new.id = old.id
                      /\ "name" \in sup => new.name = b.name
                      /\ "location" \in sup => new.location = b.location
                      /\ "is_active" \in sup => new.is_active = b.is_active
                      /\ "last_usage" \in sup => new.last_usage = b.last_usage
                      /\ req'.op = "patch" =>
                           /\ "name" \notin sup => new.name = old.name
                           /\ "location" \notin sup => new.location = old.location
                           /\ "is_active" \notin sup => new.is_active = old.is_active
                           /\ "last_usage" \notin sup =>
                                new.last_usage = old.last_usage ]_vars

(* -------------------------------- C4 ----------------------------------- *)

\* C4: a delete addressed to an active row answers 204 and removes exactly
\* that row, every other row staying as it was; and an identifier that has
\* been handed out and is no longer in the table stays out of it for ever:
\* every request by that identifier answers 404, no list returns it and no
\* create hands it out again.
C4_HardDeletePermanent ==
  [][ /\ ( req'.op = "delete" /\ TargetsActive(req', store) )
         => /\ resp'.status = 204
            /\ req'.id \notin Ids(store')
            /\ store' = SelectSeq(store, LAMBDA r : r.id # req'.id)
      /\ \A id \in 1..(nextId - 1) :
           id \notin Ids(store)
           => /\ id \notin Ids(store')
              /\ (ById(req') /\ req'.id = id) => resp'.status = 404
              /\ \A i \in 1..Len(resp'.body) : resp'.body[i].id # id
      /\ nextId' >= nextId
      /\ Ids(store') \subseteq 1..(nextId' - 1) ]_vars

C4_Witness ==
  /\ req.op = "create"
  /\ resp.status = 201
  /\ \E id \in 1..(nextId - 1) : id \notin Ids(store) /\ id < resp.body[1].id
  /\ \E i \in 1..Len(store) : store[i].id < resp.body[1].id

(* -------------------------------- C5 ----------------------------------- *)

\* C5 (as stated): a create that supplies name adds exactly one row, answers
\* 201 with that row, and the row holds the supplied name and, for location,
\* is_active and last_usage, the supplied value or else "Cairo", true, null.
C5_CreateStoresSupplied ==
  [][ ( req'.op = "create" /\ "name" \in req'.body.supplied )
      => /\ resp'.status = 201
         /\ Len(store') = Len(store) + 1
         /\ SubSeq(store', 1, Len(store)) = store
         /\ LET b == req'.body
                row == store'[Len(store')]
            IN /\ resp'.body = <<row>>
               /\ row.id \notin Ids(store)
               /\ row.name = b.name
               /\ row.location =
                    IF "location" \in b.supplied THEN b.location ELSE Cairo
               /\ row.is_active =
                    IF "is_active" \in b.supplied THEN b.is_active ELSE TRUE
               /\ row.last_usage =
                    IF "last_usage" \in b.supplied THEN b.last_usage ELSE Null
    ]_vars

(* -------------------------------- C6 ----------------------------------- *)

\* C6 (as stated): a create that does not supply name is answered with a
\* validation error naming the field name, and the table is unchanged.
C6_CreateWithoutNameRejected ==
  [][ ( req'.op = "create" /\ "name" \notin req'.body.supplied )
      => /\ resp'.status = 400
         /\ "name" \in resp'.errors
         /\ store' = store ]_vars

(* -------------------------------- C7 ----------------------------------- *)

\* C7: every retrieve, update and delete addressed to an inactive row answers
\* 404 and leaves the table unchanged, and no request of any kind changes or
\* removes an inactive row.
C7_InactiveAbsorbing ==
  [][ /\ ( ById(req') /\ TargetsInactive(req', store) )
         => resp'.status = 404 /\ store' = store /\ nextId' = nextId
      /\ \A i \in 1..Len(store) :
           ~store[i].is_active
           => \E j \in 1..Len(store') : store'[j] = store[i] ]_vars

C7_Witness ==
  /\ req.op \in {"put", "patch", "delete"}
  /\ TargetsInactive(req, store)
  /\ resp.status = 404
  /\ "is_active" \in req.body.supplied \/ req.op = "delete"

(* -------------------------------- C8 ----------------------------------- *)

\* C8: in a list response the rows with a last_usage come in non-increasing
\* order of last_usage, and no row without a last_usage comes before a row
\* that has one.
C8_ListOrder ==
  req.op = "list" =>
    \A i, j \in 1..Len(resp.body) :
      i < j =>
        /\ ( resp.body[i].last_usage # Null /\ resp.body[j].last_usage # Null )
           => resp.body[i].last_usage >= resp.body[j].last_usage
        /\ resp.body[i].last_usage = Null => resp.body[j].last_usage = Null

C8_Witness ==
  /\ req.op = "list"
  /\ Len(resp.body) >= 3
  /\ resp.body[1].last_usage > resp.body[2].last_usage
  /\ resp.body[2].last_usage # Null
  /\ resp.body[3].last_usage = Null

(* -------------------------------- C9 ----------------------------------- *)

\* text t has needle n somewhere in it, letters compared without case
FoldedSubstring(t, n) ==
  \E from \in 1..(Len(t) + 1) :
    /\ from + Len(n) - 1 <= Len(t)
    /\ \A k \in 1..Len(n) : LowerChar(t[from + k - 1]) = LowerChar(n[k])

\* the row passes every filter the request supplies
PassesFilters(r, rq) ==
  /\ "location" \in rq.params.supplied => r.location = rq.params.location
  /\ "loc" \in rq.params.supplied => FoldedSubstring(r.location, rq.params.loc)
  /\ ( "recent" \in rq.params.supplied /\ rq.params.recent )
     => r.last_usage # Null /\ r.last_usage + Hours24 >= rq.now

\* C9: a list response holds, once each, exactly the active rows of the table
\* that pass every supplied filter: location equal, loc contained without
\* regard to case, recent=true used no more than 24 hours before the request
\* (exactly 24 hours included); recent=false or no parameter restricts nothing.
C9_ListExactlyFiltered ==
  req.op = "list" =>
    /\ Range(resp.body) =
         { r \in Range(store) : r.is_active /\ PassesFilters(r, req) }
    /\ Cardinality(Range(resp.body)) = Len(resp.body)

C9_Witness ==
  /\ req.op = "list"
  /\ req.params.supplied = {"loc", "recent"}
  /\ req.params.recent
  /\ \E i \in 1..Len(resp.body) : resp.body[i].last_usage + Hours24 = req.now
  /\ \E i \in 1..Len(store) :
       /\ store[i].is_active
       /\ store[i].last_usage # Null
       /\ store[i].last_usage + Hours24 < req.now
  /\ \E i \in 1..Len(store) :
       store[i].is_active /\ ~FoldedSubstring(store[i].location, req.params.loc)

(* -------------------------------- C10 ---------------------------------- *)

\* C10: no two rows of the table have the same id; a request that is not a
\* delete keeps the id of every row, a delete keeps the ids of the rows it
\* leaves; a create gives the new row the table's next key whatever id the
\* body carries; and a read or update by id answers with the id addressed.
C10_IdUniqueStable ==
  /\ UniqueIds(store)
  /\ [][ /\ UniqueIds(store')
         /\ req'.op # "delete" =>
              \A i \in 1..Len(store) :
                i <= Len(store') /\ store'[i].id = store[i].id
         /\ req'.op = "delete" =>
              IdSeq(store') =
                SelectSeq(IdSeq(store), LAMBDA x : x \in Ids(store'))
         /\ ( req'.op = "create" /\ resp'.status = 201 )
              => /\ Len(store') = Len(store) + 1
                 /\ store'[Len(store')].id = nextId
                 /\ resp'.body[1].id = nextId
         /\ ( req'.op \in {"retrieve", "put", "patch"} /\ resp'.status = 200 )
              => resp'.body[1].id = req'.id ]_vars

C10_Witness ==
  /\ req.op = "create"
  /\ "id" \in req.body.supplied
  /\ resp.status = 201
  /\ resp.body[1].id # req.body.id
  /\ req.body.id \in Ids(store)

====
